---------------------------- MODULE Spec2Model ----------------------------
(***************************************************************************)
(* Model of src/Excel_Table_Extractor.py: the row classifier               *)
(* (is_header_row), the table segmenter (detect_tables, one action per     *)
(* branch of the loop body) and the finalizer (process_tables).            *)
(*                                                                         *)
(* A cell is a record [ty, v]: ty is the Python type of the value that     *)
(* pandas hands to the code ("nan" for an empty cell, "str", "int",        *)
(* "bool", "datetime", "time"), v is its printed form str(value).          *)
(***************************************************************************)
EXTENDS Integers, Sequences, FiniteSets, TLC

VARIABLES
    grid,                \* self.data_frame: sequence of rows, each a sequence of cells
    keywords,            \* self.keywords
    pc,                  \* position in extract_tables / is_header_row
    index,               \* loop variable of detect_tables (0-based, as in the code)
    tables,              \* detect_tables: tables
    current_table,       \* detect_tables: current_table
    header_row_indices,  \* detect_tables: header_row_indices
    headers,             \* detect_tables: headers
    header,              \* detect_tables: header (None or a list)
    in_table,            \* detect_tables: in_table
    processed_tables,    \* extract_tables: processed_tables
    verdict,             \* result of a direct call of is_header_row
    cur_src,             \* history: grid indices of the rows held in current_table
    src,                 \* history: per emitted table, its header index and row indices
    active_idx           \* history: grid index of the row that set the active header

vars == <<grid, keywords, pc, index, tables, current_table, header_row_indices,
          headers, header, in_table, processed_tables, verdict, cur_src, src,
          active_idx>>

segvars == <<tables, current_table, header_row_indices, headers, header,
             in_table, cur_src, src, active_idx>>

-----------------------------------------------------------------------------
(* Bounds of the model *)

\* a grid of the segmenter's specification has at most MaxCells cells
MaxCells == 8

\* the rows handed to the classifier's specification have ClsWidth cells
ClsWidth == 4

-----------------------------------------------------------------------------
(* Cells *)

NaN == [ty |-> "nan", v |-> "nan"]
StrCell(s) == [ty |-> "str", v |-> s]
IntCell(s) == [ty |-> "int", v |-> s]
BoolCell(s) == [ty |-> "bool", v |-> s]
TimeCell(s) == [ty |-> "time", v |-> s]

\* self.keywords default (line 37)
DefaultKeywords == {"date", "name", "amount", "total", "price"}

\* str.lower() on the strings of the model
lower(s) ==
    CASE s = "Date" -> "date"
      [] s = "Name" -> "name"
      [] s = "Amount" -> "amount"
      [] s = "Total" -> "total"
      [] s = "TOTAL" -> "total"
      [] s = "Alice" -> "alice"
      [] s = "Bob" -> "bob"
      [] s = "Carol" -> "carol"
      [] s = "True" -> "true"
      [] OTHER -> s

\* needle in hay, for lower-cased strings of the model: the keywords of the
\* model that occur as substrings of each string
Substrings(hay) ==
    CASE hay = "date" -> {"date"}
      [] hay = "name" -> {"name"}
      [] hay = "amount" -> {"amount"}
      [] hay = "total" -> {"total"}
      [] OTHER -> {}

contains(hay, needle) == needle \in Substrings(hay)

\* row.dropna()
dropna(row) == SelectSeq(row, LAMBDA c : c.ty # "nan")

\* pd.to_datetime(value, errors='raise') returns (TRUE) or raises
\* ValueError/TypeError (FALSE), for a value that is not a str
to_datetime_ok(value) == value.ty \in {"int", "float", "datetime"}

\* is_string_or_date (lines 55-62)
is_string_or_date(value) ==
    IF value.ty = "str" THEN TRUE ELSE to_datetime_ok(value)

\* isinstance(x, (int, float)) (line 75); bool is a subclass of int
is_numeric(x) == x.ty \in {"int", "float", "bool"}

\* threshold = 0.75 (line 49), as the fraction ThresholdNum / ThresholdDen
ThresholdNum == 3
ThresholdDen == 4

\* the comparison with > for >=
AtLeastThresholdStrict(count, total) == ThresholdDen * count > ThresholdNum * total

\* the comparison with the complement of the threshold, 0.25
AtLeastThresholdLoose(count, total) ==
    ThresholdDen * count >= (ThresholdDen - ThresholdNum) * total

\* count / total >= threshold
AtLeastThreshold(count, total) == ThresholdDen * count >= ThresholdNum * total

\* keyword_present (lines 67-68)
keyword_present(non_null_values, kws) ==
    \E i \in 1..Len(non_null_values) : \E keyword \in kws :
        contains(lower(non_null_values[i].v), lower(keyword))

\* is_header_row (lines 40-78)
is_header_row(row, next_row, kws) ==
    LET non_null_values == dropna(row) IN
    IF Len(non_null_values) = 0 THEN FALSE
    ELSE
      LET string_or_date_count == Len(SelectSeq(non_null_values, is_string_or_date))
          next_row_non_null == dropna(next_row)
      IN
      IF Len(next_row_non_null) = 0 THEN FALSE
      ELSE
        LET next_row_numeric_count == Len(SelectSeq(next_row_non_null, is_numeric))
            next_row_is_data ==
                AtLeastThreshold(next_row_numeric_count, Len(next_row_non_null))
        IN (AtLeastThreshold(string_or_date_count, Len(non_null_values))
            \/ keyword_present(non_null_values, kws))
           /\ next_row_is_data

-----------------------------------------------------------------------------
(* Inputs *)

\* the cells of the grids of the segmenter's specification
GridCells == {NaN, StrCell("Total"), IntCell("100")}

\* the rows of width w over a set of cells
RowsOf(w, cells) == [1..w -> cells]

\* the rectangular grids of r rows and w columns
GridsOf(r, w, cells) == [1..r -> RowsOf(w, cells)]

\* the rectangular grids of at most n cells (the empty grid included)
GridsUpTo(n, cells) ==
    UNION {GridsOf(r, w, cells) : <<r, w>> \in
              {d \in (0..n) \X (1..n) : d[1] * d[2] <= n /\ (d[1] = 0 => d[2] = 1)}}

\* spec.md section 8, end-to-end scenario A
ScenarioA ==
    << <<StrCell("Date"), StrCell("Name"), StrCell("Amount")>>,
       <<StrCell("2024-01-01"), StrCell("Alice"), IntCell("100")>>,
       <<StrCell("2024-01-02"), StrCell("Bob"), IntCell("200")>>,
       <<NaN, NaN, NaN>>,
       <<StrCell("Name"), StrCell("Total"), NaN>>,
       <<StrCell("Carol"), IntCell("50"), NaN>> >>

Grids == GridsUpTo(MaxCells, GridCells) \cup {ScenarioA}

\* the cells of the rows of the classifier's specification
ClsCells == {NaN, StrCell("Alice"), StrCell("Total"), IntCell("100"), TimeCell("12:00:00")}
ClsNextCells == {NaN, StrCell("2024-01-01"), IntCell("100")}

KeywordSets == {DefaultKeywords}

-----------------------------------------------------------------------------
(* detect_tables *)

\* header = None
None == [none |-> TRUE, list |-> <<>>]
Some(l) == [none |-> FALSE, list |-> l]

\* range(n) as a list: 0, ..., n-1
RangeList(n) == [k \in 1..n |-> k - 1]

\* pd.DataFrame(current_table, columns=header)
DataFrame(data, hdr) ==
    [columns |-> hdr.list, rows |-> data, idx |-> RangeList(Len(data))]

\* self.data_frame.iloc[index]
Row(i) == grid[i + 1]

\* the look-ahead of the last row is padded with zeros instead of None
EmptyRowZeros(n) == [k \in 1..n |-> IntCell("0")]

\* pd.Series([None] * len(row))
EmptyRow(n) == [k \in 1..n |-> NaN]

\* the look-ahead of the last row is the row itself instead of an empty row
NextRowSelf(i) == IF i + 1 < Len(grid) THEN grid[i + 2] ELSE Row(i)

\* next_row (lines 95-96)
NextRow(i) == IF i + 1 < Len(grid) THEN grid[i + 2] ELSE EmptyRow(Len(Row(i)))

\* the if without its second conjunct: a header is taken also inside a table
HeaderCondReentrant(i) == is_header_row(Row(i), NextRow(i), keywords)

\* condition of the if (line 98)
HeaderCond(i) == is_header_row(Row(i), NextRow(i), keywords) /\ ~in_table

\* the elif without the comparison of the lengths
DataCondAnyLength(i) == in_table

\* the elif with the test of section 4.2: not a header and a matching count
DataCondNotHeader(i) ==
    /\ in_table
    /\ ~is_header_row(Row(i), NextRow(i), keywords)
    /\ Len(dropna(Row(i))) = Len(header.list)

\* the elif without the test of in_table, len(None) taken as 0
DataCondNoState(i) == Len(dropna(Row(i))) = Len(header.list)

\* condition of the elif (line 107)
DataCond(i) == in_table /\ Len(dropna(Row(i))) = Len(header.list)

\* the last row of an emitted table stays in the buffer
ResetKeepsLast(ct) == IF ct = <<>> THEN <<>> ELSE <<ct[Len(ct)]>>

\* the buffer is not emptied after a table is emitted
ResetKeeps(ct) == ct

\* current_table = [] (lines 102, 113)
Reset(ct) == <<>>

\* the row replaces the buffer instead of being appended to it
AppendedOverwrite(ct, row) == <<dropna(row)>>

\* the header is kept when a table is closed
DiscardKeeps(h) == h

\* header = None (line 114)
Discard(h) == None

\* current_table.append(row.dropna().tolist()) (line 109)
Appended(ct, row) == Append(ct, dropna(row))

\* if current_table: tables.append(...) (lines 100-101, 111-112, 117-118)
Flushed(tbls) ==
    IF current_table # <<>> THEN Append(tbls, DataFrame(current_table, header))
    ELSE tbls

FlushedSrc(s) ==
    IF current_table # <<>> THEN Append(s, [hdr |-> active_idx, rows |-> cur_src])
    ELSE s

\* loop body, if branch (lines 98-106)
HeaderRow ==
    /\ pc = "scan"
    /\ index < Len(grid)
    /\ HeaderCond(index)
    /\ tables' = Flushed(tables)
    /\ src' = FlushedSrc(src)
    /\ current_table' = Reset(current_table)
    /\ cur_src' = (IF current_table' = <<>> THEN <<>> ELSE cur_src)
    /\ header_row_indices' = Append(header_row_indices, index)
    /\ header' = Some(dropna(Row(index)))
    /\ headers' = Append(headers, dropna(Row(index)))
    /\ in_table' = TRUE
    /\ active_idx' = index
    /\ index' = index + 1
    /\ UNCHANGED <<grid, keywords, pc, processed_tables, verdict>>

\* loop body, elif branch (lines 107-109)
DataRow ==
    /\ pc = "scan"
    /\ index < Len(grid)
    /\ ~HeaderCond(index)
    /\ DataCond(index)
    /\ current_table' = Appended(current_table, Row(index))
    /\ cur_src' = Append(cur_src, index)
    /\ index' = index + 1
    /\ UNCHANGED <<grid, keywords, pc, processed_tables, verdict, tables,
                   header_row_indices, headers, header, in_table, src, active_idx>>

\* loop body, else branch (lines 110-115)
BreakRow ==
    /\ pc = "scan"
    /\ index < Len(grid)
    /\ ~HeaderCond(index)
    /\ ~DataCond(index)
    /\ tables' = Flushed(tables)
    /\ src' = FlushedSrc(src)
    /\ current_table' = Reset(current_table)
    /\ cur_src' = (IF current_table' = <<>> THEN <<>> ELSE cur_src)
    /\ header' = Discard(header)
    /\ in_table' = FALSE
    /\ active_idx' = -1
    /\ index' = index + 1
    /\ UNCHANGED <<grid, keywords, pc, processed_tables, verdict,
                   header_row_indices, headers>>

\* after the loop (lines 117-120)
EndOfGrid ==
    /\ pc = "scan"
    /\ index = Len(grid)
    /\ tables' = Flushed(tables)
    /\ src' = FlushedSrc(src)
    /\ pc' = "process"
    /\ UNCHANGED <<grid, keywords, index, current_table, header_row_indices,
                   headers, header, in_table, processed_tables, verdict, cur_src,
                   active_idx>>

-----------------------------------------------------------------------------
(* process_tables *)

Min(a, b) == IF a < b THEN a ELSE b

\* table.shape[1]
Width(table) == Len(table.columns)

\* the assignment without the test of the lengths
WithHeaderAlways(table, hdr) == [table EXCEPT !.columns = hdr]

\* the table after the loop body (lines 133-136): table.columns = header
WithHeader(table, hdr) ==
    IF Len(hdr) = Width(table) THEN [table EXCEPT !.columns = hdr] ELSE table

\* reset_index without drop=True: the old index becomes the first column
reset_index_keep(table) ==
    [columns |-> <<StrCell("index")>> \o table.columns,
     rows |-> [j \in 1..Len(table.rows) |->
                  <<IntCell(ToString(table.idx[j]))>> \o table.rows[j]],
     idx |-> RangeList(Len(table.rows))]

\* table.reset_index(drop=True)
reset_index(table) == [table EXCEPT !.idx = RangeList(Len(table.rows))]

\* the append is inside the if: a table of another width is not returned
process_tables_matching(tbls, hdrs) ==
    LET all == [k \in 1..Min(Len(tbls), Len(hdrs)) |->
                   reset_index(WithHeader(tbls[k], hdrs[k]))]
        kept == {k \in 1..Len(all) : Len(hdrs[k]) = Width(tbls[k])}
        Pick[n \in 0..Len(all)] ==
            IF n = 0 THEN <<>>
            ELSE IF n \in kept THEN Append(Pick[n - 1], all[n]) ELSE Pick[n - 1]
    IN Pick[Len(all)]

\* process_tables (lines 122-138): the returned list
process_tables(tbls, hdrs) ==
    [k \in 1..Min(Len(tbls), Len(hdrs)) |-> reset_index(WithHeader(tbls[k], hdrs[k]))]

\* the argument list after the call: table.columns = header assigns in place
Renamed(tbls, hdrs) ==
    [k \in 1..Len(tbls) |->
        IF k <= Len(hdrs) THEN WithHeader(tbls[k], hdrs[k]) ELSE tbls[k]]

\* extract_tables, line 147
ProcessTables ==
    /\ pc = "process"
    /\ processed_tables' = process_tables(tables, headers)
    /\ tables' = Renamed(tables, headers)
    /\ pc' = "done"
    /\ UNCHANGED <<grid, keywords, index, current_table, header_row_indices,
                   headers, header, in_table, verdict, cur_src, src, active_idx>>

-----------------------------------------------------------------------------
(* Specification of extract_tables over all grids of the bounds *)

Init ==
    /\ grid \in Grids
    /\ keywords \in KeywordSets
    /\ pc = "scan"
    /\ index = 0
    /\ tables = <<>>
    /\ current_table = <<>>
    /\ header_row_indices = <<>>
    /\ headers = <<>>
    /\ header = None
    /\ in_table = FALSE
    /\ processed_tables = <<>>
    /\ verdict = FALSE
    /\ cur_src = <<>>
    /\ src = <<>>
    /\ active_idx = -1

\* a direct call is_header_row(row, next_row) (lines 40-78)
Classify ==
    /\ pc = "classify"
    /\ verdict' = is_header_row(grid[1], grid[2], keywords)
    /\ pc' = "classified"
    /\ UNCHANGED <<grid, keywords, index, processed_tables>>
    /\ UNCHANGED segvars

Next == HeaderRow \/ DataRow \/ BreakRow \/ EndOfGrid \/ ProcessTables

Spec == Init /\ [][Next]_vars

(* Specification of extract_tables followed by a second call of
   process_tables on its result, with the same headers *)

\* process_tables(processed_tables, headers) (lines 122-138)
Refinalize ==
    /\ pc = "done"
    /\ processed_tables' = process_tables(processed_tables, headers)
    /\ pc' = "refinalized"
    /\ UNCHANGED <<grid, keywords, index, verdict>>
    /\ UNCHANGED segvars

NextIdem == Next \/ Refinalize

SpecIdem == Init /\ [][NextIdem]_vars

(* Specification of is_header_row over all pairs of rows of the bounds *)

InitCls ==
    /\ \E row \in RowsOf(ClsWidth, ClsCells) :
          \E next_row \in RowsOf(ClsWidth, ClsNextCells) : grid = <<row, next_row>>
    /\ keywords \in KeywordSets
    /\ pc = "classify"
    /\ index = 0
    /\ tables = <<>>
    /\ current_table = <<>>
    /\ header_row_indices = <<>>
    /\ headers = <<>>
    /\ header = None
    /\ in_table = FALSE
    /\ processed_tables = <<>>
    /\ verdict = FALSE
    /\ cur_src = <<>>
    /\ src = <<>>
    /\ active_idx = -1

NextCls == Classify

SpecCls == InitCls /\ [][NextCls]_vars

-----------------------------------------------------------------------------
(* Properties of the segmenter *)

\* the loop of detect_tables is about to handle the row at index
Scanning == pc = "scan" /\ index < Len(grid)

\* is_header(r, next) for the row at index i
IsHeaderAt(i) == is_header_row(Row(i), NextRow(i), keywords)

\* the non-empty cell count of the row at index i
CellCount(i) == Len(dropna(Row(i)))

\* the non-empty cell count of a row
CellCountOf(row) == Len(dropna(row))

Last(s) == s[Len(s)]

\* the set of the elements of a sequence
Range(s) == {s[k] : k \in 1..Len(s)}

\* C1 as stated: whenever the segmenter is in state in_table and the current
\* row satisfies is_header, the current table is closed and emitted and the
\* row becomes the new active header on that iteration (its index is recorded,
\* the state stays in_table).
C1_Reentrant ==
    [][(Scanning /\ in_table /\ IsHeaderAt(index)) =>
          /\ tables' = Append(tables, DataFrame(current_table, header))
          /\ header_row_indices' = Append(header_row_indices, index)
          /\ header' = Some(dropna(Row(index)))
          /\ in_table']_vars

\* C1 amended: a row is recorded as a header only in state no_table.  In state
\* in_table a row that satisfies is_header is not recorded: it is appended as
\* a data row when its non-empty cell count equals the active header length,
\* and otherwise it closes the table (emitted if it has rows), discards the
\* header and leaves the segmenter in no_table.
C1_HeaderOnlyInNoTable ==
    [][/\ (header_row_indices' # header_row_indices) =>
              (Scanning /\ ~in_table /\ IsHeaderAt(index))
       /\ (Scanning /\ in_table /\ IsHeaderAt(index)) =>
              /\ header_row_indices' = header_row_indices
              /\ headers' = headers
              /\ IF CellCount(index) = Len(header.list)
                 THEN /\ current_table' = Append(current_table, dropna(Row(index)))
                      /\ tables' = tables
                      /\ header' = header
                      /\ in_table'
                 ELSE /\ tables' = (IF current_table # <<>>
                                    THEN Append(tables, DataFrame(current_table, header))
                                    ELSE tables)
                      /\ current_table' = <<>>
                      /\ header' = None
                      /\ ~in_table']_vars

\* C1 witness: a header-like row with another cell count has just followed the
\* last data row of a table: the table is emitted, the row is not a header.
C1_Witness ==
    /\ pc = "scan"
    /\ index >= 3
    /\ ~in_table
    /\ IsHeaderAt(index - 1)
    /\ src # <<>>
    /\ Last(src).rows # <<>>
    /\ Last(Last(src).rows) = index - 2
    /\ CellCount(index - 1) # CellCount(index - 2)
    /\ (index - 1) \notin Range(header_row_indices)

\* C2: every data row of every emitted table, and of the open table, has as
\* many values as the header that was active when it was appended, which is
\* the header of the row that opened the table; a row with another non-empty
\* cell count is in no table.
C2_RowWidth ==
    /\ \A k \in 1..Len(tables) :
          /\ Len(src[k].rows) = Len(tables[k].rows)
          /\ \A j \in 1..Len(tables[k].rows) :
                /\ Len(tables[k].rows[j]) = Len(tables[k].columns)
                /\ Len(tables[k].rows[j]) = CellCount(src[k].hdr)
                /\ CellCount(src[k].rows[j]) = CellCount(src[k].hdr)
    /\ \A j \in 1..Len(current_table) :
          /\ ~header.none
          /\ Len(current_table[j]) = Len(header.list)
    /\ \A k \in 1..Len(processed_tables) :
          \A j \in 1..Len(processed_tables[k].rows) :
              Len(processed_tables[k].rows[j]) = Len(processed_tables[k].columns)

\* C2 witness: a table was emitted although a non-empty row after its header
\* has another cell count than the header.
C2_Witness ==
    /\ pc = "done"
    /\ tables # <<>>
    /\ \E i \in 0..(Len(grid) - 1) :
          /\ i > src[1].hdr
          /\ CellCount(i) > 0
          /\ CellCount(i) # Len(tables[1].columns)

\* C3 as stated: the k-th returned table carries the header values of the row
\* that opened it, and the k-th entries of the tables, the header-row indices
\* and the headers refer to the same table.
C3_Aligned ==
    pc = "done" =>
        /\ Len(processed_tables) = Len(src)
        /\ \A k \in 1..Len(processed_tables) :
              /\ processed_tables[k].columns = dropna(Row(src[k].hdr))
              /\ k <= Len(header_row_indices)
              /\ header_row_indices[k] = src[k].hdr
              /\ headers[k] = dropna(Row(src[k].hdr))

\* C4 as stated: at the end of detect_tables there are as many emitted tables
\* as recorded header-row indices and as recorded headers.
C4_EveryHeaderEmitted ==
    pc \in {"process", "done"} =>
        /\ Len(tables) = Len(header_row_indices)
        /\ Len(tables) = Len(headers)

\* the recorded header-row index that follows index h, or the grid length
NextHeaderIndex(h) ==
    LET later == {i \in Range(header_row_indices) : i > h} IN
    IF later = {} THEN Len(grid)
    ELSE CHOOSE i \in later : \A j \in later : i <= j

\* C9: the header-row indices are strictly increasing; the data rows of every
\* emitted table lie strictly between its header index and the next recorded
\* header index (or the grid length); no grid row is in two tables, or twice
\* in one, or both a header and a data row.
C9_NoOverlap ==
    /\ \A a, b \in 1..Len(header_row_indices) :
          a < b => header_row_indices[a] < header_row_indices[b]
    /\ \A k \in 1..Len(src) :
          /\ src[k].hdr \in Range(header_row_indices)
          /\ \A j \in 1..Len(src[k].rows) :
                /\ src[k].rows[j] > src[k].hdr
                /\ src[k].rows[j] < NextHeaderIndex(src[k].hdr)
                /\ src[k].rows[j] \notin Range(header_row_indices)
                /\ tables[k].rows[j] = dropna(Row(src[k].rows[j]))
          /\ \A j1, j2 \in 1..Len(src[k].rows) :
                j1 # j2 => src[k].rows[j1] # src[k].rows[j2]
    /\ \A k1, k2 \in 1..Len(src) :
          k1 # k2 => Range(src[k1].rows) \cap Range(src[k2].rows) = {}

\* C9 witness: two tables were emitted, each with data rows.
C9_Witness ==
    /\ pc = "done"
    /\ Len(src) >= 2
    /\ Len(header_row_indices) >= 2
    /\ src[1].rows # <<>>
    /\ src[2].rows # <<>>

\* the first index after h whose row has another cell count than row h, or the
\* grid length: the row that closes the table opened at h
ClosingIndex(h) ==
    LET bad == {i \in (h + 1)..(Len(grid) - 1) : CellCount(i) # CellCount(h)} IN
    IF bad = {} THEN Len(grid)
    ELSE CHOOSE i \in bad : \A j \in bad : i <= j

\* C10: the data rows of every emitted table are exactly the rows of its
\* header span that match the header length, in grid order: all rows from the
\* one after the header up to the first row with another cell count, which
\* closes the table, or up to the end of the grid.
C10_RowConservation ==
    \A k \in 1..Len(tables) :
        LET h == src[k].hdr
            n == Len(tables[k].rows)
        IN /\ n = ClosingIndex(h) - h - 1
           /\ n = Cardinality({i \in (h + 1)..(ClosingIndex(h) - 1) :
                                   CellCount(i) = CellCount(h)})
           /\ \A j \in 1..n : tables[k].rows[j] = dropna(Row(h + j))
           /\ index >= h + n + 1

\* C10 witness: a table of at least two data rows was closed by a row with
\* another cell count.
C10_Witness ==
    /\ pc = "done"
    /\ \E k \in 1..Len(tables) :
          /\ Len(tables[k].rows) >= 2
          /\ ClosingIndex(src[k].hdr) < Len(grid)

-----------------------------------------------------------------------------
(* Properties of the classifier *)

\* the cell kinds of the data model: text (date-like text included) and dates
\* are "text or date-like", numbers are "numeric"
IsTextOrDateLike(c) == c.ty \in {"str", "datetime"}
IsNumberKind(c) == c.ty \in {"int", "float"}

\* keyword_hit: some non-empty cell contains a configured keyword
KeywordHit(row, kws) ==
    \E i \in 1..Len(row) : \E k \in kws :
        row[i].ty # "nan" /\ contains(lower(row[i].v), lower(k))

\* the judgment of section 4.1 on the cell kinds of the data model
ContractIsHeader(row, next_row, kws) ==
    LET non_null == dropna(row)
        next_non_null == dropna(next_row)
    IN /\ Len(non_null) > 0
       /\ Len(next_non_null) > 0
       /\ \/ ThresholdDen * Len(SelectSeq(non_null, IsTextOrDateLike))
                >= ThresholdNum * Len(non_null)
          \/ KeywordHit(row, kws)
       /\ ThresholdDen * Len(SelectSeq(next_non_null, IsNumberKind))
             >= ThresholdNum * Len(next_non_null)

\* C5 as stated: is_header(row, next_row) is false for a row or a next row
\* without non-empty cell, and otherwise is (shape_ratio >= 0.75 or
\* keyword_hit) and data_ratio >= 0.75, shape_ratio counting the text and
\* date-like cells and data_ratio the numeric cells.
C5_Contract ==
    pc = "classified" => verdict = ContractIsHeader(grid[1], grid[2], keywords)

\* the scan is over and the result is returned
Done == pc = "done"

ScenarioATable1 ==
    [columns |-> <<StrCell("Date"), StrCell("Name"), StrCell("Amount")>>,
     rows |-> << <<StrCell("2024-01-01"), StrCell("Alice"), IntCell("100")>>,
                 <<StrCell("2024-01-02"), StrCell("Bob"), IntCell("200")>> >>,
     idx |-> <<0, 1>>]

ScenarioATable2 ==
    [columns |-> <<StrCell("Name"), StrCell("Total")>>,
     rows |-> << <<StrCell("Carol"), IntCell("50")>> >>,
     idx |-> <<0>>]

\* C6 as stated: for the grid of scenario A extraction returns exactly two
\* tables, [Date, Name, Amount] with two data rows and [Name, Total] with the
\* data row [Carol, 50].
C6_ScenarioATwoTables ==
    (Done /\ grid = ScenarioA) =>
        processed_tables = <<ScenarioATable1, ScenarioATable2>>

\* C6 amended: for the grid of scenario A no row is classified as a header
\* (the row after each candidate is empty or less than 75% numeric) and
\* extraction returns no table.
C6_ScenarioANoTable ==
    (grid = ScenarioA) =>
        /\ \A i \in 0..(Len(grid) - 1) : ~IsHeaderAt(i)
        /\ header_row_indices = <<>>
        /\ headers = <<>>
        /\ tables = <<>>
        /\ processed_tables = <<>>
        /\ ~in_table

\* C6 witness: extraction of the grid of scenario A has returned.
C6_Witness == Done /\ grid = ScenarioA

\* every non-empty cell of the grid is a number, and there is one
AllNumeric ==
    /\ \A i \in 1..Len(grid) : \A j \in 1..Len(grid[i]) :
          grid[i][j].ty \in {"nan", "int", "float"}
    /\ \E i \in 1..Len(grid) : \E j \in 1..Len(grid[i]) : grid[i][j].ty # "nan"

\* C7 as stated: in a grid whose non-empty cells are all numeric no row is
\* classified as a header and extraction returns no table.
C7_AllNumericNoTable ==
    AllNumeric =>
        /\ header_row_indices = <<>>
        /\ tables = <<>>
        /\ processed_tables = <<>>

\* the fractions of the threshold property, as the classifier counts them
ShapeCount(row) == Len(SelectSeq(dropna(row), is_string_or_date))
DataCount(row) == Len(SelectSeq(dropna(row), is_numeric))
ExactlyThreshold(count, total) ==
    total > 0 /\ ThresholdDen * count = ThresholdNum * total
BelowThreshold(count, total) ==
    total > 0 /\ ThresholdDen * count < ThresholdNum * total

-----------------------------------------------------------------------------
(* Properties of the finalizer *)

\* process_tables is about to run on the lists returned by detect_tables
Finalizing == pc = "process"

\* the columns of a table carry no name: they are the positions 0, 1, ...
IsPositional(cols) == \A k \in 1..Len(cols) : cols[k].ty = "position"

C12_Idempotent ==
    [][(pc = "done" /\ pc' = "refinalized") =>
          /\ Len(processed_tables') = Len(processed_tables)
          /\ \A k \in 1..Len(processed_tables) :
                /\ processed_tables'[k].columns = processed_tables[k].columns
                /\ processed_tables'[k].rows = processed_tables[k].rows
                /\ processed_tables'[k].idx = processed_tables[k].idx
                /\ processed_tables'[k].idx = RangeList(Len(processed_tables[k].rows))]_vars

\* C12 witness: a result of two tables, one of them of two rows, was
\* finalized a second time.
C12_Witness ==
    /\ pc = "refinalized"
    /\ Len(processed_tables) >= 2
    /\ \E k \in 1..Len(processed_tables) : Len(processed_tables[k].rows) >= 2

-----------------------------------------------------------------------------
(* Further properties of the segmenter *)

\* no row of the grid is classified as a header
NoHeaderRow == \A i \in 0..(Len(grid) - 1) : ~IsHeaderAt(i)

\* C14: for the empty grid, and for every grid without a row classified as a
\* header, the segmenter is in no_table during the whole pass, every row takes
\* the else branch, and zero tables, header indices and headers are returned.
C14_NoHeaderNoTable ==
    NoHeaderRow =>
        /\ ~in_table
        /\ header = None
        /\ current_table = <<>>
        /\ tables = <<>>
        /\ header_row_indices = <<>>
        /\ headers = <<>>
        /\ processed_tables = <<>>
        /\ Scanning => ENABLED BreakRow

\* C14 witness: extraction of a grid of at least two rows, not all empty,
\* without header row has returned.
C14_Witness ==
    /\ Done
    /\ NoHeaderRow
    /\ Len(grid) >= 2
    /\ \E i \in 0..(Len(grid) - 1) : CellCount(i) > 0

\* the indices a, a+1, ..., b as a list
Interval(a, b) == [k \in 1..(b - a + 1) |-> a + k - 1]

\* C15: when the scan ends in state in_table the row buffer is not empty, and
\* the open table is emitted as the last table, with the active header and
\* all rows after the header row up to the end of the grid.
C15_OpenTableEmitted ==
    /\ (pc = "scan" /\ index = Len(grid) /\ in_table) => current_table # <<>>
    /\ (pc = "process" /\ in_table) =>
          /\ tables # <<>>
          /\ Last(tables) = DataFrame(current_table, header)
          /\ Last(tables).rows # <<>>
          /\ Last(src) = [hdr |-> active_idx, rows |-> cur_src]
          /\ cur_src = Interval(active_idx + 1, Len(grid) - 1)
          /\ \A j \in 1..Len(cur_src) : current_table[j] = dropna(Row(cur_src[j]))

\* C15 witness: the scan has ended inside a second table that holds two rows.
C15_Witness ==
    /\ pc = "process"
    /\ in_table
    /\ Len(tables) >= 2
    /\ Len(current_table) >= 2

\* the grid indices of the data rows of the emitted tables and of the buffer
DataRowIndices == UNION {Range(src[k].rows) : k \in 1..Len(src)} \cup Range(cur_src)

\* C16 as stated: every row that is a data row of a table is not classified
\* as a header: is_header(r, row i+1) is false for it.
C16_DataRowNotHeader == \A i \in DataRowIndices : ~IsHeaderAt(i)

\* C16 amended: a row is appended as a data row exactly when the segmenter is
\* in state in_table and the row's non-empty cell count equals the active
\* header length, whether or not is_header holds for the row.
C16_DataRowByCount ==
    [][Scanning =>
          /\ (cur_src' = Append(cur_src, index)) <=>
                (in_table /\ ~header.none /\ CellCount(index) = Len(header.list))
          /\ (cur_src' = Append(cur_src, index)) =>
                current_table' = Append(current_table, dropna(Row(index)))
          /\ (cur_src' # Append(cur_src, index)) => current_table' = <<>>]_vars

\* C16 witness: a row for which is_header holds is a data row of an emitted
\* table.
C16_Witness ==
    /\ Done
    /\ \E k \in 1..Len(src) : \E j \in 1..Len(src[k].rows) :
          /\ IsHeaderAt(src[k].rows[j])
          /\ tables[k].rows[j] = dropna(Row(src[k].rows[j]))

\* C17: at most one table is open: the row buffer is non-empty only in state
\* in_table; in state in_table the buffer holds exactly the rows scanned
\* since the active header row, each of the length of that header, so it is
\* empty when a header has just been recorded; no buffered row is a row of an
\* emitted table.
C17_OneOpenTable ==
    /\ (current_table # <<>>) => in_table
    /\ Len(cur_src) = Len(current_table)
    /\ in_table =>
          /\ active_idx = Last(header_row_indices)
          /\ header = Some(dropna(Row(active_idx)))
          /\ header.list = Last(headers)
          /\ cur_src = Interval(active_idx + 1, index - 1)
          /\ \A j \in 1..Len(current_table) :
                /\ current_table[j] = dropna(Row(cur_src[j]))
                /\ Len(current_table[j]) = Len(header.list)
          /\ (index = active_idx + 1) => current_table = <<>>
    /\ pc = "scan" =>
          \A k \in 1..Len(src) : Range(src[k].rows) \cap Range(cur_src) = {}

\* C17 witness: a second header has just been recorded after a first table
\* was emitted, and the buffer is empty.
C17_Witness ==
    /\ pc = "scan"
    /\ in_table
    /\ Len(header_row_indices) >= 2
    /\ index = active_idx + 1
    /\ tables # <<>>
    /\ current_table = <<>>

\* C18: every recorded header-row index i has i + 1 < number of grid rows and
\* a row i+1 with a non-empty cell: the last row and a row followed by an
\* all-empty row are never recorded as headers, also with a keyword.
C18_HeaderHasPopulatedNext ==
    /\ \A k \in 1..Len(header_row_indices) :
          /\ header_row_indices[k] + 1 < Len(grid)
          /\ CellCount(header_row_indices[k] + 1) > 0
    /\ \A i \in 0..(index - 1) :
          (i = Len(grid) - 1 \/ CellCount(i + 1) = 0) =>
              i \notin Range(header_row_indices)

\* C18 witness: a header was recorded, and a keyword row scanned in state
\* no_table, which is the last row or is followed by an all-empty row, was not.
C18_Witness ==
    /\ Done
    /\ header_row_indices # <<>>
    /\ \E i \in 0..(Len(grid) - 1) :
          /\ KeywordHit(Row(i), keywords)
          /\ i = Len(grid) - 1 \/ CellCount(i + 1) = 0
          /\ i \notin Range(header_row_indices)
          /\ i \notin DataRowIndices
          /\ i > 0 => (i - 1) \notin (DataRowIndices \cup Range(header_row_indices))

\* C19: the active header is defined exactly when the state is in_table, so
\* the elif compares the lengths only with a header, and every row of the
\* scan has a branch to take.
C19_HeaderIffInTable ==
    /\ in_table <=> ~header.none
    /\ header.none => header.list = <<>>
    /\ in_table => Len(header.list) > 0
    /\ Scanning => ENABLED (HeaderRow \/ DataRow \/ BreakRow)
    /\ (pc = "scan" /\ ~Scanning) => ENABLED EndOfGrid

\* C19 witness: a table has been closed by a row of another length and the
\* scan goes on in state no_table, without header.
C19_Witness ==
    /\ Scanning
    /\ ~in_table
    /\ header.none
    /\ header_row_indices # <<>>
    /\ tables # <<>>

\* C20: finalization loses no table: there are never more emitted tables than
\* recorded headers, and extract_tables returns as many tables as
\* detect_tables emitted, in the same order (the k-th returned table holds the
\* rows of the k-th emitted table).
C20_NoTableLost ==
    /\ Len(tables) <= Len(headers)
    /\ Len(tables) <= Len(header_row_indices)
    /\ Done =>
          /\ Len(processed_tables) = Len(tables)
          /\ \A k \in 1..Len(tables) :
                /\ processed_tables[k].rows = tables[k].rows
                /\ \A j \in 1..Len(src[k].rows) :
                      processed_tables[k].rows[j] = dropna(Row(src[k].rows[j]))

\* C20 witness: a table is returned although more headers were recorded
\* than tables were emitted.
C20_Witness ==
    /\ Done
    /\ Len(processed_tables) >= 1
    /\ Len(headers) > Len(tables)
    /\ processed_tables[1].rows # <<>>

=============================================================================
